---- MODULE Spec2Model ----
(***************************************************************************)
(* A model of the SSH command transport of go-git as vendored in awless:   *)
(* vendor/gopkg.in/src-d/go-git.v4/plumbing/transport/ssh/common.go.       *)
(*                                                                         *)
(* The heap of command objects is the sequence `commands`; the secure      *)
(* channel collaborator (golang.org/x/crypto/ssh) is the sequence `conns`  *)
(* of every connection ever dialed, each with the number of times its      *)
(* Close and the Close of its session channel were invoked.  Every         *)
(* collaborator call of the last operation is listed, in order, in         *)
(* `trace` (of the last step, where a call is taken step by step), and    *)
(* what the operation returned is in `ret`.  The functions that touch no   *)
(* state are applied to the input `inp`, giving `out` (SpecPure).          *)
(*                                                                         *)
(* Strings are sequences of one-character strings, so that formatting      *)
(* (fmt.Sprintf) is concatenation that can be inspected.                   *)
(***************************************************************************)
EXTENDS Integers, Sequences, FiniteSets, TLC

VARIABLES commands, conns, ret, trace, pc, overlapped, inp, out

vars == <<commands, conns, ret, trace, pc, overlapped, inp, out>>

(***************************************************************************)
(* Bounds of the model.                                                    *)
(***************************************************************************)
\* command objects that are ever allocated
NumCommands == 1
\* connections that are ever dialed
MaxDials == 2
\* goroutines that may call Close at the same time (SpecConc)
NumCallers == 2

(***************************************************************************)
(* Program constants and values.                                           *)
(***************************************************************************)
DefaultPort == 22

NoErr == "nil"
ErrInvalidAuthMethod == "transport.ErrInvalidAuthMethod"
ErrAlreadyConnected == "transport.ErrAlreadyConnected"
\* a call through the nil embedded *ssh.Session
PanicNilSession == "panic: nil pointer dereference"

\* the errors the collaborators may report, one set per call
BuilderErrs == {"agent: SSH_AUTH_SOCK unreachable"}
HostKeyErrs == {"hostKeyCallback: known_hosts"}
DialErrs == {"dial tcp: connection refused"}
NewSessionErrs == {"ssh: open channel rejected"}
SessionCloseErrs == {"EOF"}
ClientCloseErrs == {"close: use of closed connection"}
StartErrs == {"ssh: session already started"}

\* transport.AuthMethod values a caller may pass; nil is NilAuth
NilAuth == "nil"
SSHAuthMethods == {"ssh.PublicKeys"}
OtherAuthMethods == {"http.BasicAuth"}
AuthArgs == {NilAuth} \cup SSHAuthMethods \cup OtherAuthMethods

\* the type assertion auth.(AuthMethod)
IsSSHAuthMethod(a) == a \in SSHAuthMethods

s_example == <<"e", "x", ".", "c", "o">>
s_other == <<"h", "2">>
s_git == <<"g", "i", "t">>
s_repo == <<"/", "r", ".", "g", "i", "t">>
s_quoted == <<"/", "a", "'", "b">>
s_upload == <<"u", "p">>
s_receive == <<"r", "c", "v">>

ep_default == [host |-> s_example, port |-> 0, user |-> s_git, path |-> s_repo]
ep_port == [host |-> s_other, port |-> 2222, user |-> <<>>, path |-> s_quoted]

\* the (command, endpoint) pairs Command is called with
Requests == {<<s_upload, ep_default>>, <<s_receive, ep_port>>}

(***************************************************************************)
(* Formatting.                                                             *)
(***************************************************************************)
Digits == <<"0", "1", "2", "3", "4", "5", "6", "7", "8", "9">>

RECURSIVE utoa(_)
utoa(n) ==
    IF n < 10 THEN <<Digits[n + 1]>>
    ELSE utoa(n \div 10) \o <<Digits[(n % 10) + 1]>>

\* the verb %d
itoa(n) == IF n < 0 THEN <<"-">> \o utoa(-n) ELSE utoa(n)

\* mutant: only a negative port is replaced by the default port
getHostWithPort_negative(c) ==
    LET host == c.endpoint.host
        port == IF c.endpoint.port < 0 THEN DefaultPort ELSE c.endpoint.port
    IN  host \o <<":">> \o itoa(port)

getHostWithPort(c) ==
    LET host == c.endpoint.host
        port == IF c.endpoint.port <= 0 THEN DefaultPort ELSE c.endpoint.port
    IN  host \o <<":">> \o itoa(port)

\* mutant: the path is not quoted
endpointToCommand_bare(cmd, ep) == cmd \o <<" ">> \o ep.path

endpointToCommand(cmd, ep) == cmd \o <<" ", "'">> \o ep.path \o <<"'">>

(***************************************************************************)
(* Collaborator calls and the running state of one method call.            *)
(***************************************************************************)
\* one collaborator call: its name, string argument, the connection it is
\* made on (0: none), the auth method it is made on or returns, its error
Ev(call, arg, id, a, res) ==
    [call |-> call, arg |-> arg, id |-> id, auth |-> a, res |-> res]

NewConn(owner) ==
    [owner |-> owner, closes |-> 0, hasChan |-> FALSE, chanCloses |-> 0]

\* the running state of a method call on command object c (number self)
Ctx(self, c, cs) ==
    [self |-> self, c |-> c, conns |-> cs, trace |-> <<>>, err |-> NoErr,
     done |-> FALSE]

Return(x, e) == [x EXCEPT !.err = e, !.done = TRUE]

Call(x, ev) == [x EXCEPT !.trace = Append(@, ev)]

\* ssh.Client.Close on connection id
clientClose(x, id, res) ==
    [Call(x, Ev("client.Close", <<>>, id, NilAuth, res))
        EXCEPT !.conns[id].closes = @ + 1]

\* ssh.Session.Close on the session channel of connection id
sessionClose(x, id, res) ==
    [Call(x, Ev("Session.Close", <<>>, id, NilAuth, res))
        EXCEPT !.conns[id].chanCloses = @ + 1]

(***************************************************************************)
(* The methods of command.  Each takes the running state x of the call and *)
(* the outcomes o the collaborators will report, and gives the state the   *)
(* call ends in; a statement after a return leaves x as it is (x.done).    *)
(***************************************************************************)
\* what DefaultAuthBuilder returns on success
AgentAuth == "ssh.NewSSHAgentAuth"

\* the outcomes of the collaborator calls of one connect: the calls after
\* the first that fails are not made, and their outcomes are left at NoErr
ConnectOutcomes ==
    { o \in [builder : {NoErr} \cup BuilderErrs,
             hostKey : {NoErr} \cup HostKeyErrs,
             dial : {NoErr} \cup DialErrs,
             newSession : {NoErr} \cup NewSessionErrs,
             clientClose : {NoErr} \cup ClientCloseErrs] :
        /\ o.builder # NoErr => o.hostKey = NoErr
        /\ (o.builder # NoErr \/ o.hostKey # NoErr) => o.dial = NoErr
        /\ (o.builder # NoErr \/ o.hostKey # NoErr \/ o.dial # NoErr)
               => o.newSession = NoErr
        /\ o.newSession = NoErr => o.clientClose = NoErr }

CloseOutcomes ==
    [sessionClose : {NoErr} \cup SessionCloseErrs,
     clientClose : {NoErr} \cup ClientCloseErrs]

StartOutcomes == [start : {NoErr} \cup StartErrs]

\* func (c *command) setAuth: the command it leaves and the error it returns
setAuth(c, a) ==
    IF ~IsSSHAuthMethod(a)
    THEN [c |-> c, err |-> ErrInvalidAuthMethod]
    ELSE [c |-> [c EXCEPT !.auth = a], err |-> NoErr]

\* func (c *command) setAuthFromEndpoint: c.auth, err = DefaultAuthBuilder(user)
setAuthFromEndpoint(x, o) ==
    LET a == IF o.builder = NoErr THEN AgentAuth ELSE NilAuth
        y == Call(x, Ev("DefaultAuthBuilder", x.c.endpoint.user, 0, a, o.builder))
    IN  [y EXCEPT !.c.auth = a, !.err = o.builder]

\* mutant: the test of c.connected is missing
connectCheck_skip(x) == x

\* if c.connected { return transport.ErrAlreadyConnected }
connectCheck(x) ==
    IF x.c.connected THEN Return(x, ErrAlreadyConnected) ELSE x

\* mutant: the default auth is built even when an auth method was set
connectAuth_always(x, o) ==
    IF x.done THEN x
    ELSE LET y == setAuthFromEndpoint(x, o)
         IN  IF y.err # NoErr THEN Return(y, y.err) ELSE y

\* if c.auth == nil { if err := c.setAuthFromEndpoint(); err != nil { return err } }
connectAuth(x, o) ==
    IF x.done \/ x.c.auth # NilAuth THEN x
    ELSE LET y == setAuthFromEndpoint(x, o)
         IN  IF y.err # NoErr THEN Return(y, y.err) ELSE y

\* mutant: the error of hostKeyCallback is not tested
connectConfig_noCheck(x, o) ==
    IF x.done THEN x
    ELSE Call(Call(x, Ev("clientConfig", <<>>, 0, x.c.auth, NoErr)),
              Ev("hostKeyCallback", <<>>, 0, x.c.auth, o.hostKey))

\* config := c.auth.clientConfig(); config.HostKeyCallback, err = c.auth.hostKeyCallback()
connectConfig(x, o) ==
    IF x.done THEN x
    ELSE LET y == Call(Call(x, Ev("clientConfig", <<>>, 0, x.c.auth, NoErr)),
                       Ev("hostKeyCallback", <<>>, 0, x.c.auth, o.hostKey))
         IN  IF o.hostKey # NoErr THEN Return(y, o.hostKey) ELSE y

\* mutant: a connection dialed earlier is used again
connectDial_pooled(x, o) ==
    IF x.done THEN x
    ELSE LET id == IF o.dial # NoErr THEN 0
                   ELSE IF Len(x.conns) > 0 THEN 1 ELSE Len(x.conns) + 1
             y == Call(x, Ev("ssh.Dial", getHostWithPort(x.c), id, x.c.auth, o.dial))
         IN  IF o.dial # NoErr
             THEN Return([y EXCEPT !.c.client = 0], o.dial)
             ELSE IF Len(x.conns) > 0 THEN [y EXCEPT !.c.client = id]
             ELSE [y EXCEPT !.c.client = id,
                            !.conns = Append(@, NewConn(x.self))]

\* c.client, err = ssh.Dial("tcp", c.getHostWithPort(), config)
connectDial(x, o) ==
    IF x.done THEN x
    ELSE LET id == IF o.dial = NoErr THEN Len(x.conns) + 1 ELSE 0
             y == Call(x, Ev("ssh.Dial", getHostWithPort(x.c), id, x.c.auth, o.dial))
         IN  IF o.dial # NoErr
             THEN Return([y EXCEPT !.c.client = 0], o.dial)
             ELSE [y EXCEPT !.c.client = id,
                            !.conns = Append(@, NewConn(x.self))]

\* mutant: the connection is not closed when the session open fails
connectSession_leak(x, o) ==
    IF x.done THEN x
    ELSE LET id == x.c.client
             y == Call(x, Ev("client.NewSession", <<>>, id, NilAuth, o.newSession))
         IN  IF o.newSession # NoErr
             THEN Return([y EXCEPT !.c.Session = 0], o.newSession)
             ELSE [y EXCEPT !.c.Session = id, !.conns[id].hasChan = TRUE]

\* mutant: the failed session open closes the connection and does not return
connectSession_fallthrough(x, o) ==
    IF x.done THEN x
    ELSE LET id == x.c.client
             y == Call(x, Ev("client.NewSession", <<>>, id, NilAuth, o.newSession))
         IN  IF o.newSession # NoErr
             THEN clientClose([y EXCEPT !.c.Session = 0], id, o.clientClose)
             ELSE [y EXCEPT !.c.Session = id, !.conns[id].hasChan = TRUE]

\* c.Session, err = c.client.NewSession(); on error _ = c.client.Close()
connectSession(x, o) ==
    IF x.done THEN x
    ELSE LET id == x.c.client
             y == Call(x, Ev("client.NewSession", <<>>, id, NilAuth, o.newSession))
         IN  IF o.newSession # NoErr
             THEN Return(clientClose([y EXCEPT !.c.Session = 0], id, o.clientClose),
                         o.newSession)
             ELSE [y EXCEPT !.c.Session = id, !.conns[id].hasChan = TRUE]

\* mutant: connected is set whether or not connect has failed
connectFinish_always(x) ==
    IF x.done THEN [x EXCEPT !.c.connected = TRUE]
    ELSE Return([x EXCEPT !.c.connected = TRUE], NoErr)

\* c.connected = true; return nil
connectFinish(x) ==
    IF x.done THEN x ELSE Return([x EXCEPT !.c.connected = TRUE], NoErr)

\* func (c *command) connect
connect(x, o) ==
    connectFinish(connectSession(connectDial(connectConfig(connectAuth(
        connectCheck(x), o), o), o), o))

\* mutant: Close tests the session pointer, not the connected flag
closeCheck_bySession(x) == IF x.c.Session = 0 THEN Return(x, NoErr) ELSE x

\* if !c.connected { return nil }
closeCheck(x) == IF ~x.c.connected THEN Return(x, NoErr) ELSE x

\* mutant: connected is not cleared
closeFlag_keep(x) == x

\* c.connected = false
closeFlag(x) == IF x.done THEN x ELSE [x EXCEPT !.c.connected = FALSE]

\* mutant: the connection is closed where the session channel should be
closeSession_clientFirst(x, o) ==
    IF x.done THEN x ELSE clientClose(x, x.c.client, o.clientClose)

\* mutant: the error of Session.Close is returned
closeSession_propagate(x, o) ==
    IF x.done THEN x
    ELSE LET y == sessionClose(x, x.c.Session, o.sessionClose)
         IN  IF o.sessionClose # NoErr THEN Return(y, o.sessionClose) ELSE y

\* _ = c.Session.Close()
closeSession(x, o) ==
    IF x.done THEN x ELSE sessionClose(x, x.c.Session, o.sessionClose)

\* return c.client.Close()
closeClient(x, o) ==
    IF x.done THEN x
    ELSE Return(clientClose(x, x.c.client, o.clientClose), o.clientClose)

\* func (c *command) Close
Close(x, o) == closeClient(closeSession(closeFlag(closeCheck(x)), o), o)

\* mutant: Start refuses a command that is not connected
Start_connectedOnly(x, o) ==
    IF ~x.c.connected THEN Return(x, ErrAlreadyConnected)
    ELSE Return(Call(x, Ev("Session.Start",
                           endpointToCommand(x.c.command, x.c.endpoint),
                           x.c.Session, NilAuth, o.start)),
                o.start)

\* func (c *command) Start
Start(x, o) ==
    IF x.c.Session = 0 THEN Return(x, PanicNilSession)
    ELSE Return(Call(x, Ev("Session.Start",
                           endpointToCommand(x.c.command, x.c.endpoint),
                           x.c.Session, NilAuth, o.start)),
                o.start)

\* c := &command{command: cmd, endpoint: ep}
NewCommand(cmd, ep) ==
    [connected |-> FALSE, command |-> cmd, endpoint |-> ep, client |-> 0,
     Session |-> 0, auth |-> NilAuth]

\* mutant: the command is returned even when connect failed
Command_handleOnError(self, cmd, ep, a, cs, o) ==
    LET c0 == NewCommand(cmd, ep)
        c1 == IF a # NilAuth THEN setAuth(c0, a).c ELSE c0
        x == connect(Ctx(self, c1, cs), o)
    IN  [x |-> x, handle |-> self]

\* func (r *runner) Command: the call's end state and the handle returned
\* (0: nil).  The error setAuth returns is dropped by the caller.
Command(self, cmd, ep, a, cs, o) ==
    LET c0 == NewCommand(cmd, ep)
        c1 == IF a # NilAuth THEN setAuth(c0, a).c ELSE c0
        x == connect(Ctx(self, c1, cs), o)
    IN  [x |-> x, handle |-> IF x.err # NoErr THEN 0 ELSE self]

(***************************************************************************)
(* The state machine: every step is one call, by a caller of the package   *)
(* (Command, and Start and Close on a command) or from inside it (connect  *)
(* on a command object, as Command itself and the package's tests call it).*)
(***************************************************************************)
Created == 1 .. Len(commands)

Callers == 1 .. NumCallers

Idle == [at |-> "idle", c |-> 0]

Result(op, c, a, err, handle) ==
    [op |-> op, c |-> c, auth |-> a, err |-> err, handle |-> handle]

\* no function is being applied
NoInput ==
    [fn |-> "none", cmd |-> <<>>, host |-> <<>>, port |-> 0, path |-> <<>>,
     in |-> <<>>, maxLength |-> 0]

NoOutput == [applied |-> FALSE, val |-> <<>>]

Init ==
    /\ commands = <<>>
    /\ conns = <<>>
    /\ ret = Result("none", 0, NilAuth, NoErr, 0)
    /\ trace = <<>>
    /\ pc = [g \in Callers |-> Idle]
    /\ overlapped = FALSE
    /\ inp = NoInput
    /\ out = NoOutput

\* Command, while fewer than n commands were allocated and d connections dialed
CommandUpTo(n, d) ==
    \E rq \in Requests, a \in AuthArgs, o \in ConnectOutcomes :
        /\ Len(commands) < n
        /\ \A g \in Callers : pc[g] = Idle
        /\ LET self == Len(commands) + 1
               r == Command(self, rq[1], rq[2], a, conns, o)
           IN  /\ Len(r.x.conns) <= d
               /\ commands' = Append(commands, r.x.c)
               /\ conns' = r.x.conns
               /\ trace' = r.x.trace
               /\ ret' = Result("Command", self, a, r.x.err, r.handle)
        /\ UNCHANGED <<pc, overlapped, inp, out>>

CommandCall == CommandUpTo(NumCommands, MaxDials)

connectCall ==
    \E self \in Created, o \in ConnectOutcomes :
        LET x == connect(Ctx(self, commands[self], conns), o)
        IN  /\ Len(x.conns) <= MaxDials
            /\ commands' = [commands EXCEPT ![self] = x.c]
            /\ conns' = x.conns
            /\ trace' = x.trace
            /\ ret' = Result("connect", self, NilAuth, x.err, 0)
            /\ UNCHANGED <<pc, overlapped, inp, out>>

StartCall ==
    \E self \in Created, o \in StartOutcomes :
        LET x == Start(Ctx(self, commands[self], conns), o)
        IN  /\ trace' = x.trace
            /\ ret' = Result("Start", self, NilAuth, x.err, 0)
            /\ UNCHANGED <<commands, conns, pc, overlapped, inp, out>>

CloseCall ==
    \E self \in Created, o \in CloseOutcomes :
        LET x == Close(Ctx(self, commands[self], conns), o)
        IN  /\ commands' = [commands EXCEPT ![self] = x.c]
            /\ conns' = x.conns
            /\ trace' = x.trace
            /\ ret' = Result("Close", self, NilAuth, x.err, 0)
            /\ UNCHANGED <<pc, overlapped, inp, out>>

Next == CommandCall \/ connectCall \/ StartCall \/ CloseCall

Spec == Init /\ [][Next]_vars

(***************************************************************************)
(* Close called by several goroutines at once.  command has no lock, so a  *)
(* Close is four steps, each reading or writing the shared object when it  *)
(* runs: the test of c.connected, the write of false, Session.Close and    *)
(* client.Close.  `overlapped` records that a Close began on a command     *)
(* while another Close on the same command had not returned.               *)
(***************************************************************************)
InClose(self) == {g \in Callers : pc[g].at # "idle" /\ pc[g].c = self}

\* a step of caller g's Close on command self, from running state x to y
CloseStep(g, self, y, at) ==
    /\ commands' = [commands EXCEPT ![self] = y.c]
    /\ conns' = y.conns
    /\ trace' = y.trace
    /\ pc' = [pc EXCEPT ![g] = IF y.done THEN Idle ELSE [at |-> at, c |-> self]]
    /\ ret' = IF y.done THEN Result("Close", self, NilAuth, y.err, 0) ELSE ret

CloseBegin ==
    \E g \in Callers, self \in Created :
        /\ pc[g] = Idle
        /\ CloseStep(g, self, closeCheck(Ctx(self, commands[self], conns)), "flag")
        /\ overlapped' = (overlapped \/ InClose(self) # {})
        /\ UNCHANGED <<inp, out>>

CloseFlag ==
    \E g \in Callers :
        /\ pc[g].at = "flag"
        /\ LET self == pc[g].c
           IN  CloseStep(g, self, closeFlag(Ctx(self, commands[self], conns)), "session")
        /\ UNCHANGED <<overlapped, inp, out>>

CloseSession ==
    \E g \in Callers, o \in CloseOutcomes :
        /\ pc[g].at = "session"
        /\ LET self == pc[g].c
           IN  CloseStep(g, self, closeSession(Ctx(self, commands[self], conns), o),
                         "client")
        /\ UNCHANGED <<overlapped, inp, out>>

CloseClient ==
    \E g \in Callers, o \in CloseOutcomes :
        /\ pc[g].at = "client"
        /\ LET self == pc[g].c
           IN  CloseStep(g, self, closeClient(Ctx(self, commands[self], conns), o),
                         "idle")
        /\ UNCHANGED <<overlapped, inp, out>>

NextConc == CommandCall \/ CloseBegin \/ CloseFlag \/ CloseSession \/ CloseClient

SpecConc == Init /\ [][NextConc]_vars

(***************************************************************************)
(* Vocabulary of the properties.                                           *)
(***************************************************************************)
\* the last step was a call of connect on self, by Command or directly
IsConnectOf(r, self) == r.op \in {"Command", "connect"} /\ r.c = self

\* the positions of the calls named call in a trace
CallsOf(tr, call) == {i \in DOMAIN tr : tr[i].call = call}

\* the names of the calls of a trace, in order
CallNames(tr) == [i \in DOMAIN tr |-> tr[i].call]

\* self was connected at some time: one of its dials got its session channel
WasConnected(self) ==
    \E k \in DOMAIN conns : conns[k].owner = self /\ conns[k].hasChan

\* the connect of self failed and it was never connected
Failed(self) ==
    self \in Created /\ ~commands[self].connected /\ ~WasConnected(self)

\* this step dialed a connection for self
NewDialBy(self) ==
    Len(conns') > Len(conns) /\ conns'[Len(conns')].owner = self

NoDoubleClose(cs) ==
    \A k \in DOMAIN cs : cs[k].closes <= 1 /\ cs[k].chanCloses <= 1

(***************************************************************************)
(* C1.  Command with an auth that is not an ssh AuthMethod fails with      *)
(* ErrInvalidAuthMethod, returns no handle and calls no collaborator (no   *)
(* default-auth builder, no dial, no session open).                        *)
(* Command drops the error setAuth returns, so this is violated.           *)
(***************************************************************************)
C1_InvalidAuthRejected ==
    (ret.op = "Command" /\ ret.auth \in OtherAuthMethods)
        => /\ ret.err = ErrInvalidAuthMethod
           /\ ret.handle = 0
           /\ trace = <<>>

(***************************************************************************)
(* C2.  When a connect's dial succeeds and its session open fails, the     *)
(* call's last collaborator call is the Close of the connection just       *)
(* dialed, the error returned is that of the session open (whatever the    *)
(* Close returned), and connected is false.                                *)
(***************************************************************************)
C2_SessionOpenFailureClosesConn ==
    \A i \in DOMAIN trace :
        (ret.op \in {"Command", "connect"}
            /\ trace[i].call = "client.NewSession" /\ trace[i].res # NoErr)
        => /\ i > 1
           /\ trace[i - 1].call = "ssh.Dial"
           /\ trace[i - 1].res = NoErr
           /\ trace[i - 1].id = trace[i].id
           /\ Len(trace) = i + 1
           /\ trace[i + 1].call = "client.Close"
           /\ trace[i + 1].id = trace[i].id
           /\ conns[trace[i].id].closes = 1
           /\ ret.err = trace[i].res
           /\ ~commands[ret.c].connected

\* the session open failed and so did the Close of the connection
C2_Witness ==
    /\ ret.op = "Command"
    /\ ret.err \in NewSessionErrs
    /\ Len(trace) > 0
    /\ trace[Len(trace)].call = "client.Close"
    /\ trace[Len(trace)].res \in ClientCloseErrs

(***************************************************************************)
(* C3.  connect on a command whose connected flag is true returns          *)
(* ErrAlreadyConnected, calls no collaborator and changes neither the      *)
(* command (connected, client, Session, auth) nor any connection.          *)
(***************************************************************************)
C3_ConnectWhenConnected ==
    [][\A self \in Created :
        (commands[self].connected /\ ret'.op = "connect" /\ ret'.c = self)
        => /\ ret'.err = ErrAlreadyConnected
           /\ trace' = <<>>
           /\ commands' = commands
           /\ conns' = conns]_vars

C3_Witness ==
    /\ ret.op = "connect"
    /\ ret.err = ErrAlreadyConnected
    /\ commands[ret.c].connected
    /\ commands[ret.c].client # 0
    /\ conns[commands[ret.c].client].closes = 0

(***************************************************************************)
(* C4 as stated.  With two goroutines in Close on one connected command,   *)
(* in every interleaving the Close of the session channel and the Close    *)
(* of the connection are each invoked at most once.                        *)
(***************************************************************************)
C4_NoDoubleCloseConcurrent == NoDoubleClose(conns)

(***************************************************************************)
(* C4 as amended.  As long as no Close began on a command while another    *)
(* Close on it had not returned, the session channel and the connection    *)
(* are each closed at most once.                                           *)
(***************************************************************************)
C4_NoDoubleCloseUnlessOverlapped == ~overlapped => NoDoubleClose(conns)

\* a second Close, begun after the first returned, has returned at once
C4_Witness ==
    /\ ~overlapped
    /\ \A g \in Callers : pc[g] = Idle
    /\ ret.op = "Close"
    /\ trace = <<>>
    /\ commands[ret.c].client # 0
    /\ conns[commands[ret.c].client].closes = 1
    /\ conns[commands[ret.c].client].chanCloses = 1

(***************************************************************************)
(* C5.  Close on a connected command calls Session.Close and then          *)
(* client.Close on its connection, whatever Session.Close returned, and    *)
(* returns what client.Close returned.                                     *)
(***************************************************************************)
C5_CloseReturnsConnCloseResult ==
    [][\A self \in Created :
        (commands[self].connected /\ ret'.op = "Close" /\ ret'.c = self)
        => /\ CallNames(trace') = <<"Session.Close", "client.Close">>
           /\ trace'[1].id = commands[self].Session
           /\ trace'[2].id = commands[self].client
           /\ conns'[commands[self].client].closes
                 = conns[commands[self].client].closes + 1
           /\ ret'.err = trace'[2].res]_vars

\* Session.Close failed, and Close returned the success of client.Close
C5_Witness ==
    /\ ret.op = "Close"
    /\ Len(trace) = 2
    /\ trace[1].res \in SessionCloseErrs
    /\ trace[2].res = NoErr
    /\ ret.err = NoErr

(***************************************************************************)
(* C6.  Close on a command whose connected flag is false returns nil,      *)
(* calls no collaborator and changes no field of the command.              *)
(***************************************************************************)
C6_CloseUnconnectedNoop ==
    [][\A self \in Created :
        (~commands[self].connected /\ ret'.op = "Close" /\ ret'.c = self)
        => /\ ret'.err = NoErr
           /\ trace' = <<>>
           /\ commands' = commands
           /\ conns' = conns]_vars

\* Close has returned on a command that was never connected
C6_Witness ==
    /\ ret.op = "Close"
    /\ Failed(ret.c)
    /\ ret.err = NoErr

(***************************************************************************)
(* C7.  Of any sequence of Close calls on a connected command the first    *)
(* clears connected and closes the session channel and then the            *)
(* connection, once each; every later one returns nil, calls nothing and   *)
(* leaves the state as it is.  No resource is ever closed twice.           *)
(***************************************************************************)
C7_CloseIdempotent ==
    [][\A self \in Created :
        (ret'.op = "Close" /\ ret'.c = self)
        => /\ ~commands'[self].connected
           /\ NoDoubleClose(conns')
           /\ IF commands[self].connected
              THEN /\ CallNames(trace') = <<"Session.Close", "client.Close">>
                   /\ conns'[commands[self].Session].chanCloses = 1
                   /\ conns'[commands[self].client].closes = 1
              ELSE /\ ret'.err = NoErr
                   /\ trace' = <<>>
                   /\ commands' = commands
                   /\ conns' = conns]_vars

\* a later Close has returned on a command that an earlier Close closed
C7_Witness ==
    /\ ret.op = "Close"
    /\ trace = <<>>
    /\ WasConnected(ret.c)
    /\ commands[ret.c].client # 0
    /\ commands[ret.c].Session # 0
    /\ conns[commands[ret.c].client].closes = 1
    /\ conns[commands[ret.c].Session].chanCloses = 1

(***************************************************************************)
(* C8 as stated.  A command that was connected and is no longer (it was    *)
(* closed) never dials again and never has connected true again, whatever  *)
(* is called on it.                                                        *)
(***************************************************************************)
C8_ConnectedAtMostOnce ==
    [][\A self \in Created :
        (~commands[self].connected /\ WasConnected(self))
        => (~commands'[self].connected /\ ~NewDialBy(self))]_vars

(***************************************************************************)
(* C8 as amended.  connected becomes true only in a connect that returns   *)
(* nil after its dial and its session open succeeded: in Command, on the   *)
(* command it has just created, or in a connect called on the command.     *)
(* Start and Close never set it.                                           *)
(***************************************************************************)
C8_ConnectedOnlyByConnect ==
    [][\A self \in 1 .. Len(commands') :
        ((self \notin Created \/ ~commands[self].connected)
            /\ commands'[self].connected)
        => /\ IsConnectOf(ret', self)
           /\ ret'.op = "Command" <=> self \notin Created
           /\ ret'.err = NoErr
           /\ \E i \in CallsOf(trace', "ssh.Dial") : trace'[i].res = NoErr
           /\ \E i \in CallsOf(trace', "client.NewSession") : trace'[i].res = NoErr]_vars

\* a command that was closed is connected again, on a second connection
C8_Witness ==
    /\ ret.op = "connect"
    /\ commands[ret.c].connected
    /\ \E k \in DOMAIN conns :
          /\ conns[k].owner = ret.c
          /\ conns[k].hasChan
          /\ conns[k].closes = 1
          /\ k # commands[ret.c].client

(***************************************************************************)
(* C9 as stated.  A command whose connect failed is in a terminal state:   *)
(* nothing called later on it dials or makes connected true, and a         *)
(* Command whose connect failed returns the error and no handle.           *)
(***************************************************************************)
C9_FailedConnectTerminal ==
    [][/\ \A self \in Created :
            Failed(self) => (~commands'[self].connected /\ ~NewDialBy(self))
       /\ (ret'.op = "Command" /\ ret'.err # NoErr) => ret'.handle = 0]_vars

(***************************************************************************)
(* C9 as amended.  A connect that fails returns its error after at most    *)
(* one dial and leaves connected false, and Command then returns that      *)
(* error and no handle; on a command whose connect failed only a later     *)
(* call of connect dials or makes connected true.                          *)
(***************************************************************************)
C9_FailedConnectNoHandle ==
    [][/\ (ret'.op \in {"Command", "connect"}
              /\ ret'.err \notin {NoErr, ErrAlreadyConnected})
          => /\ ret'.handle = 0
             /\ ~commands'[ret'.c].connected
             /\ Cardinality(CallsOf(trace', "ssh.Dial")) <= 1
             /\ \E i \in DOMAIN trace' : trace'[i].res = ret'.err
       /\ \A self \in Created :
            (Failed(self) /\ (commands'[self].connected \/ NewDialBy(self)))
            => (ret'.op = "connect" /\ ret'.c = self)]_vars

\* a connect called on a command whose Command failed before or at the dial
\* has connected it, on the only connection ever dialed for it
C9_Witness ==
    /\ ret.op = "connect"
    /\ ret.err = NoErr
    /\ commands[ret.c].connected
    /\ Cardinality({k \in DOMAIN conns : conns[k].owner = ret.c}) = 1

(***************************************************************************)
(* C10.  In every state a command with connected true has a connection     *)
(* that was dialed and a session channel that was opened on it, and has    *)
(* invoked Close on neither.                                               *)
(***************************************************************************)
C10_ConnectedImpliesOpen ==
    \A self \in Created :
        commands[self].connected
        => /\ commands[self].client \in DOMAIN conns
           /\ commands[self].Session = commands[self].client
           /\ conns[commands[self].client].owner = self
           /\ conns[commands[self].client].hasChan
           /\ conns[commands[self].client].closes = 0
           /\ conns[commands[self].client].chanCloses = 0

\* connected on a second connection, the first was closed when its session
\* open failed
C10_Witness ==
    /\ Len(conns) = 2
    /\ ~conns[1].hasChan
    /\ \E self \in Created : commands[self].connected /\ commands[self].client = 2

(***************************************************************************)
(* C11.  A Command given a valid ssh auth method never calls the default   *)
(* auth builder, and the client configuration, the host key callback and   *)
(* the dial are those of the method given; a Command given a nil auth      *)
(* calls the builder exactly once, first, with the user of the endpoint.   *)
(***************************************************************************)
C11_AuthResolution ==
    ret.op = "Command"
    => /\ ret.auth \in SSHAuthMethods
          => /\ CallsOf(trace, "DefaultAuthBuilder") = {}
             /\ CallsOf(trace, "clientConfig") # {}
             /\ CallsOf(trace, "hostKeyCallback") # {}
             /\ \A i \in DOMAIN trace :
                   trace[i].call \in {"clientConfig", "hostKeyCallback", "ssh.Dial"}
                   => trace[i].auth = ret.auth
             /\ commands[ret.c].auth = ret.auth
       /\ ret.auth = NilAuth
          => /\ CallsOf(trace, "DefaultAuthBuilder") = {1}
             /\ trace[1].arg = commands[ret.c].endpoint.user
             /\ \A i \in DOMAIN trace :
                   trace[i].call \in {"clientConfig", "hostKeyCallback", "ssh.Dial"}
                   => trace[i].auth = trace[1].auth

\* a Command given nil has asked the builder for the user "git" and dialed
C11_Witness ==
    /\ ret.op = "Command"
    /\ ret.auth = NilAuth
    /\ Len(trace) > 3
    /\ trace[1].call = "DefaultAuthBuilder"
    /\ trace[1].arg = s_git
    /\ trace[4].call = "ssh.Dial"
    /\ trace[4].auth = AgentAuth

(***************************************************************************)
(* C12.  The calls of a connect are, in this order, the default auth       *)
(* builder (when no auth is set), clientConfig, hostKeyCallback, ssh.Dial  *)
(* and NewSession: a dial directly follows a hostKeyCallback that          *)
(* succeeded, on a resolved auth method, and when the builder or           *)
(* hostKeyCallback fails that call is the last, its error is returned and  *)
(* connected is false.                                                     *)
(***************************************************************************)
C12_ConnectOrder ==
    ret.op \in {"Command", "connect"}
    => /\ \A i \in CallsOf(trace, "DefaultAuthBuilder") : i = 1
       /\ \A i \in CallsOf(trace, "clientConfig") :
             /\ i = 1 \/ (i = 2 /\ trace[1].call = "DefaultAuthBuilder")
             /\ i < Len(trace) /\ trace[i + 1].call = "hostKeyCallback"
       /\ \A i \in CallsOf(trace, "hostKeyCallback") :
             i > 1 /\ trace[i - 1].call = "clientConfig"
       /\ \A i \in CallsOf(trace, "ssh.Dial") :
             /\ i > 1
             /\ trace[i - 1].call = "hostKeyCallback"
             /\ trace[i - 1].res = NoErr
             /\ trace[i].auth # NilAuth
             /\ trace[i].auth = trace[i - 1].auth
       /\ \A i \in CallsOf(trace, "client.NewSession") :
             i > 1 /\ trace[i - 1].call = "ssh.Dial" /\ trace[i - 1].res = NoErr
       /\ \A i \in DOMAIN trace :
             (trace[i].call \in {"DefaultAuthBuilder", "hostKeyCallback"}
                 /\ trace[i].res # NoErr)
             => /\ Len(trace) = i
                /\ ret.err = trace[i].res
                /\ ~commands[ret.c].connected

\* hostKeyCallback failed after the builder succeeded, and nothing was dialed
C12_Witness ==
    /\ ret.op = "Command"
    /\ ret.err \in HostKeyErrs
    /\ CallNames(trace) = <<"DefaultAuthBuilder", "clientConfig", "hostKeyCallback">>
    /\ conns = <<>>

(***************************************************************************)
(* C13.  A Command makes at most one call of the default auth builder,     *)
(* one dial and one session open; its first step that fails (setAuth, the  *)
(* builder, hostKeyCallback, the dial, the session open) ends it, and the  *)
(* error of that step is the error returned.                               *)
(* The error of setAuth is dropped (C1), so this is violated.              *)
(***************************************************************************)
C13_NoRetryNoMasking ==
    ret.op = "Command"
    => LET steps == {"DefaultAuthBuilder", "hostKeyCallback", "ssh.Dial",
                     "client.NewSession"}
           failed == {i \in DOMAIN trace :
                         trace[i].call \in steps /\ trace[i].res # NoErr}
       IN  /\ Cardinality(CallsOf(trace, "DefaultAuthBuilder")) <= 1
           /\ Cardinality(CallsOf(trace, "ssh.Dial")) <= 1
           /\ Cardinality(CallsOf(trace, "client.NewSession")) <= 1
           /\ IF ret.auth # NilAuth /\ ~IsSSHAuthMethod(ret.auth)
              THEN ret.err = ErrInvalidAuthMethod /\ trace = <<>>
              ELSE IF failed # {}
              THEN \E i \in failed :
                      /\ ret.err = trace[i].res
                      /\ \A j \in DOMAIN trace : j > i => trace[j].call \notin steps
              ELSE ret.err = NoErr

\* the same, of the Commands given nil or a valid ssh auth method
C13_NoRetryNoMaskingValidAuth ==
    (ret.op = "Command" /\ ret.auth \in {NilAuth} \cup SSHAuthMethods)
        => C13_NoRetryNoMasking

(***************************************************************************)
(* The functions that touch no state, each applied to an input drawn in    *)
(* the initial state: command.getHostWithPort and endpointToCommand of     *)
(* ssh/common.go, and sliceOfSlice of aws/fetch/helpers.go.                *)
(***************************************************************************)
\* the longest slice given to sliceOfSlice
MaxSliceLen == 4

s_example_com == <<"e", "x", "a", "m", "p", "l", "e", ".", "c", "o", "m">>
s_repo_git == <<"/", "r", "e", "p", "o", ".", "g", "i", "t">>
s_spaced == <<"/", "m", "y", " ", "r", "e", "p", "o">>
s_git_upload_pack == <<"g", "i", "t", "-", "u", "p", "l", "o", "a", "d", "-", "p", "a", "c", "k">>

Hosts == {s_example_com, s_example, s_other, <<>>}
Ports == {-22, -1, 0, 1, 9, 10, 22, 80, 443, 2222, 65535}
CommandLines == {s_git_upload_pack, s_upload, s_receive, <<>>}
Paths == {s_repo_git, s_repo, s_quoted, s_spaced, <<>>}

\* the elements of a []*string
Pointers == {"p", "q"}
Slices == UNION {[1 .. n -> Pointers] : n \in 0 .. MaxSliceLen}
MaxLengths == -1 .. MaxSliceLen + 1

HostPortInputs ==
    {[NoInput EXCEPT !.fn = "getHostWithPort", !.host = h, !.port = p] :
        h \in Hosts, p \in Ports}

CommandLineInputs ==
    {[NoInput EXCEPT !.fn = "endpointToCommand", !.cmd = c, !.path = p] :
        c \in CommandLines, p \in Paths}

SliceInputs ==
    {[NoInput EXCEPT !.fn = "sliceOfSlice", !.in = s, !.maxLength = m] :
        s \in Slices, m \in MaxLengths}

\* in[i:j] of Go
Slice(in, i, j) == SubSeq(in, i + 1, j)

\* mutant: the last, shorter chunk is not appended
RECURSIVE sliceLoop_dropTail(_, _, _, _)
sliceLoop_dropTail(in, maxLength, i, res) ==
    IF ~(i < Len(in)) THEN res
    ELSE sliceLoop_dropTail(in, maxLength, i + maxLength,
            IF i + maxLength < Len(in)
            THEN Append(res, Slice(in, i, i + maxLength))
            ELSE res)

\* for i := 0; i < len(in); i += maxLength { ... }
RECURSIVE sliceLoop(_, _, _, _)
sliceLoop(in, maxLength, i, res) ==
    IF ~(i < Len(in)) THEN res
    ELSE sliceLoop(in, maxLength, i + maxLength,
            IF i + maxLength < Len(in)
            THEN Append(res, Slice(in, i, i + maxLength))
            ELSE Append(res, Slice(in, i, Len(in))))

\* func sliceOfSlice(in []*string, maxLength int) (res [][]*string)
sliceOfSlice(in, maxLength) ==
    IF maxLength <= 0 THEN <<>>
    ELSE IF Len(in) = 0 THEN <<>>
    ELSE sliceLoop(in, maxLength, 0, <<>>)

InitPure ==
    /\ commands = <<>>
    /\ conns = <<>>
    /\ ret = Result("none", 0, NilAuth, NoErr, 0)
    /\ trace = <<>>
    /\ pc = [g \in Callers |-> Idle]
    /\ overlapped = FALSE
    /\ inp \in HostPortInputs \cup CommandLineInputs \cup SliceInputs
    /\ out = NoOutput

Applied(val) ==
    /\ out' = [applied |-> TRUE, val |-> val]
    /\ UNCHANGED <<commands, conns, ret, trace, pc, overlapped, inp>>

getHostWithPortCall ==
    /\ inp.fn = "getHostWithPort"
    /\ Applied(getHostWithPort(
           NewCommand(<<>>, [host |-> inp.host, port |-> inp.port,
                             user |-> <<>>, path |-> <<>>])))

endpointToCommandCall ==
    /\ inp.fn = "endpointToCommand"
    /\ Applied(endpointToCommand(inp.cmd,
           [host |-> <<>>, port |-> 0, user |-> <<>>, path |-> inp.path]))

sliceOfSliceCall ==
    /\ inp.fn = "sliceOfSlice"
    /\ Applied(sliceOfSlice(inp.in, inp.maxLength))

NextPure == getHostWithPortCall \/ endpointToCommandCall \/ sliceOfSliceCall

SpecPure == InitPure /\ [][NextPure]_vars

\* the decimal numerals of the positive ports of Ports
Decimal(p) ==
    CASE p = 1 -> <<"1">>
       [] p = 9 -> <<"9">>
       [] p = 10 -> <<"1", "0">>
       [] p = 22 -> <<"2", "2">>
       [] p = 80 -> <<"8", "0">>
       [] p = 443 -> <<"4", "4", "3">>
       [] p = 2222 -> <<"2", "2", "2", "2">>
       [] p = 65535 -> <<"6", "5", "5", "3", "5">>

\* the concatenation of the chunks, in order
RECURSIVE Flatten(_)
Flatten(chunks) ==
    IF chunks = <<>> THEN <<>> ELSE Head(chunks) \o Flatten(Tail(chunks))

(***************************************************************************)
(* C14.  getHostWithPort gives the host, a colon and the port in decimal,  *)
(* the port being 22 when the endpoint's port is zero or negative and the  *)
(* endpoint's port when it is positive.                                    *)
(***************************************************************************)
C14_DefaultPort ==
    (out.applied /\ inp.fn = "getHostWithPort")
        => out.val = inp.host \o <<":">>
                     \o (IF inp.port <= 0 THEN <<"2", "2">> ELSE Decimal(inp.port))

\* example.com with port 0 resolves to example.com:22
C14_Witness ==
    /\ out.applied
    /\ inp.fn = "getHostWithPort"
    /\ inp.host = s_example_com
    /\ inp.port = 0
    /\ out.val = <<"e", "x", "a", "m", "p", "l", "e", ".", "c", "o", "m", ":", "2", "2">>

(***************************************************************************)
(* C15.  endpointToCommand gives the command, one space, a single quote,   *)
(* the path as it is, and a single quote, and nothing else.                *)
(***************************************************************************)
C15_QuotedPath ==
    (out.applied /\ inp.fn = "endpointToCommand")
        => LET n == Len(inp.cmd)
               m == Len(inp.path)
           IN  /\ Len(out.val) = n + m + 3
               /\ SubSeq(out.val, 1, n) = inp.cmd
               /\ out.val[n + 1] = " "
               /\ out.val[n + 2] = "'"
               /\ SubSeq(out.val, n + 3, n + m + 2) = inp.path
               /\ out.val[n + m + 3] = "'"

\* git-upload-pack with /repo.git gives git-upload-pack '/repo.git'
C15_Witness ==
    /\ out.applied
    /\ inp.fn = "endpointToCommand"
    /\ inp.cmd = s_git_upload_pack
    /\ inp.path = s_repo_git
    /\ out.val = <<"g", "i", "t", "-", "u", "p", "l", "o", "a", "d", "-", "p", "a", "c", "k", " ", "'", "/", "r", "e", "p", "o", ".", "g", "i", "t", "'">>

(***************************************************************************)
(* C20.  sliceOfSlice gives no chunk when maxLength is zero or negative    *)
(* or the slice is empty; otherwise the chunks, concatenated in order,     *)
(* are the slice, each chunk has between 1 and maxLength elements, and     *)
(* each chunk but the last has maxLength elements.                         *)
(***************************************************************************)
C20_Chunks ==
    (out.applied /\ inp.fn = "sliceOfSlice")
        => LET res == out.val
           IN  IF inp.maxLength <= 0 \/ inp.in = <<>>
               THEN res = <<>>
               ELSE /\ Flatten(res) = inp.in
                    /\ \A i \in DOMAIN res :
                          /\ Len(res[i]) >= 1
                          /\ Len(res[i]) <= inp.maxLength
                          /\ i < Len(res) => Len(res[i]) = inp.maxLength

\* three elements in chunks of two: a full chunk and a shorter last one
C20_Witness ==
    /\ out.applied
    /\ inp.fn = "sliceOfSlice"
    /\ inp.in = <<"p", "q", "p">>
    /\ inp.maxLength = 2
    /\ out.val = << <<"p", "q">>, <<"p">> >>

(***************************************************************************)
(* C16.  Start on a command that has a session makes one call, Start of    *)
(* that session with endpointToCommand of the command and endpoint the     *)
(* command was created with, and returns what that call returned; it does  *)
(* so whether connected is true or false (after Close), and it changes     *)
(* no command and no connection.  No step changes the command or the       *)
(* endpoint of a command.                                                  *)
(***************************************************************************)
C16_StartForwards ==
    [][/\ \A self \in Created :
            /\ commands'[self].command = commands[self].command
            /\ commands'[self].endpoint = commands[self].endpoint
       /\ \A self \in Created :
            (ret'.op = "Start" /\ ret'.c = self)
            => /\ commands' = commands
               /\ conns' = conns
               /\ commands[self].Session # 0
                  => /\ Len(trace') = 1
                     /\ trace'[1].call = "Session.Start"
                     /\ trace'[1].id = commands[self].Session
                     /\ trace'[1].arg
                           = commands[self].command \o <<" ", "'">>
                             \o commands[self].endpoint.path \o <<"'">>
                     /\ \E rq \in Requests :
                           /\ commands[self].command = rq[1]
                           /\ commands[self].endpoint = rq[2]
                     /\ ret'.err = trace'[1].res]_vars

\* a Start after Close was forwarded to the session and its error returned
C16_Witness ==
    /\ ret.op = "Start"
    /\ ret.err \in StartErrs
    /\ ~commands[ret.c].connected
    /\ WasConnected(ret.c)
    /\ Len(trace) = 1
    /\ trace[1].call = "Session.Start"
    /\ trace[1].arg = <<"r", "c", "v", " ", "'", "/", "a", "'", "b", "'">>

(***************************************************************************)
(* C17.  In every state, also between the steps of a Close, a session      *)
(* channel that was opened and not closed is on a connection that was not  *)
(* closed; a session open directly follows the successful dial of its      *)
(* connection.                                                             *)
(***************************************************************************)
C17_ChannelWithinConnection ==
    /\ \A k \in DOMAIN conns :
          (conns[k].hasChan /\ conns[k].chanCloses = 0) => conns[k].closes = 0
    /\ \A i \in CallsOf(trace, "client.NewSession") :
          /\ i > 1
          /\ trace[i - 1].call = "ssh.Dial"
          /\ trace[i - 1].res = NoErr
          /\ trace[i - 1].id = trace[i].id

\* in a Close, the session channel is closed and the connection not yet
C17_Witness ==
    \E g \in Callers :
        /\ pc[g].at = "client"
        /\ conns[commands[pc[g].c].client].chanCloses = 1
        /\ conns[commands[pc[g].c].client].closes = 0

(***************************************************************************)
(* Several sessions, each made by its own Command and used through the     *)
(* handle Command returned: Command, Start and Close, interleaved.         *)
(***************************************************************************)
\* the sessions that are ever created
NumSessions == 2

CommandCallMulti == CommandUpTo(NumSessions, NumSessions)

NextMulti == CommandCallMulti \/ StartCall \/ CloseCall

SpecMulti == Init /\ [][NextMulti]_vars

(***************************************************************************)
(* C18.  No two commands have the same connection or the same session      *)
(* channel, and each has those it dialed and opened itself.  A Command     *)
(* calls only a connection it dials itself and changes no other command    *)
(* and no connection that existed; a Close calls only the channel and the  *)
(* connection of its own command and changes no other command and no       *)
(* other connection.                                                       *)
(***************************************************************************)
C18_NoSharing ==
    [][/\ \A s1 \in 1 .. Len(commands') :
            /\ commands'[s1].client # 0
               => conns'[commands'[s1].client].owner = s1
            /\ commands'[s1].Session # 0
               => conns'[commands'[s1].Session].owner = s1
            /\ \A s2 \in 1 .. Len(commands') :
                  (s1 # s2 /\ commands'[s1].client # 0)
                  => /\ commands'[s1].client # commands'[s2].client
                     /\ commands'[s1].client # commands'[s2].Session
       /\ ret'.op = "Command"
          => /\ \A other \in Created : commands'[other] = commands[other]
             /\ \A k \in DOMAIN conns : conns'[k] = conns[k]
             /\ \A i \in DOMAIN trace' :
                   trace'[i].id = 0 \/ trace'[i].id = Len(conns) + 1
       /\ ret'.op = "Close"
          => /\ \A other \in Created \ {ret'.c} : commands'[other] = commands[other]
             /\ \A k \in DOMAIN conns :
                   k # commands[ret'.c].client => conns'[k] = conns[k]
             /\ \A i \in DOMAIN trace' :
                   /\ trace'[i].id = commands[ret'.c].client
                   /\ conns[trace'[i].id].owner = ret'.c]_vars

\* the first of two connected sessions was closed, the second is connected
\* on its own connection, which is open
C18_Witness ==
    /\ Len(commands) = 2
    /\ ret.op = "Close"
    /\ ret.c = 1
    /\ Len(trace) = 2
    /\ commands[2].connected
    /\ commands[2].client # commands[1].client
    /\ conns[commands[1].client].closes = 1
    /\ conns[commands[2].client].closes = 0
    /\ conns[commands[2].client].chanCloses = 0

(***************************************************************************)
(* C19.  After any sequence of Command, Start and Close calls, a           *)
(* connection that was dialed and never closed is the connection of the    *)
(* command that dialed it, and that command is connected.                  *)
(***************************************************************************)
C19_NoLeak ==
    \A k \in DOMAIN conns :
        conns[k].closes = 0
        => /\ commands[conns[k].owner].connected
           /\ commands[conns[k].owner].client = k

\* one connection was closed when its session open failed, another by Close
C19_Witness ==
    /\ Len(conns) = 2
    /\ ~conns[1].hasChan
    /\ conns[1].closes = 1
    /\ conns[2].hasChan
    /\ conns[2].closes = 1
    /\ ret.op = "Close"

====
